---------------------------- MODULE Spec2Model ----------------------------
(***************************************************************************)
(* Model of src/app.py: the analysis core of the Streamlit dashboard.      *)
(*                                                                         *)
(* A Streamlit script is executed top to bottom on every user interaction; *)
(* one such execution is the action Rerun.  The only state that survives   *)
(* an execution is the st.cache_data entry of carregar_excel and the file  *)
(* data/df_selecionado.xlsx on disk.                                       *)
(*                                                                         *)
(* Numbers are fixed-point integers with Escala units per 1; every         *)
(* division and square root rounds towards zero, which keeps the sign      *)
(* symmetry of IEEE rounding.  NaN and +-inf are explicit values.          *)
(***************************************************************************)
EXTENDS Integers, Sequences, FiniteSets, TLC

VARIABLES
    arquivo,         \* data/df_selecionado.xlsx: Ausente or a workbook
    cache_carregar,  \* st.cache_data entry of carregar_excel(): SemCache or a DataFrame
    sidebar,         \* USAR_AMOSTRA and TAM_AMOSTRA as the last run read them
    carga,           \* what the loader call of the last run did, and what it saw
    erro,            \* message shown by st.error in the last run
    df,              \* the loaded table of the last run
    colunas_num,     \* identificar_colunas(df)[0]
    colunas_cat,     \* identificar_colunas(df)[1]
    df_viz,          \* the table used for charts and tests
    tipos,           \* tabela_tipos(df) as shown in "Bases & Tipos"
    resumo,          \* output of the "Estatisticas" panel
    welch,           \* output of the "Teste t (Welch)" panel
    ic               \* last result of a direct call of ic_media

vars == <<arquivo, cache_carregar, sidebar, carga, erro, df, colunas_num, colunas_cat,
          df_viz, tipos, resumo, welch, ic>>

-----------------------------------------------------------------------------
(* Bounds of the model *)

\* fixed-point resolution of the modelled floating-point numbers
Escala == 1000
\* largest number of rows of a table handed to the analysis panels
MaxLinhas == 5
\* largest number of rows of a sample handed directly to the pure functions
MaxLen == 3
\* largest number of columns of a workbook
MaxColunas == 2

-----------------------------------------------------------------------------
(* Cells and column names *)

Num(x) == [k |-> "num", n |-> x, s |-> ""]
Txt(t) == [k |-> "txt", n |-> 0, s |-> t]
Data(d) == [k |-> "date", n |-> d, s |-> ""]
NA == [k |-> "na", n |-> 0, s |-> ""]

\* texts that name a date, with the day they name
TextosData == {"2024-01-05", "2024-01-06"}
DiaDe(t) == IF t = "2024-01-05" THEN 5 ELSE 6
TextoDeDia(d) == IF d = 5 THEN "2024-01-05" ELSE IF d = 6 THEN "2024-01-06" ELSE "1970-01-01"

\* texts that are numerals, with their value
TextosNumero == {"4"}
ValorDe(t) == 4

\* str(x) of a small integer
TextoDeNumero(x) ==
    IF x \in 0..9 THEN <<"0", "1", "2", "3", "4", "5", "6", "7", "8", "9">>[x + 1] ELSE "n"

\* column names are sequences of characters
OrderDate == <<"O", "r", "d", "e", "r", "D", "a", "t", "e">>
DataPedido == <<"D", "a", "t", "a", "P", "e", "d", "i", "d", "o">>
Qty == <<"Q", "t", "y">>
Status == <<"S", "t", "a", "t", "u", "s">>
UnnamedCol == <<"U", "n", "n", "a", "m", "e", "d", ":", " ", "0">>

Maiusculas == {"O", "D", "P", "Q", "S", "U"}
LowerChar(ch) ==
    IF ch \notin Maiusculas THEN ch
    ELSE CASE ch = "O" -> "o" [] ch = "D" -> "d" [] ch = "P" -> "p"
           [] ch = "Q" -> "q" [] ch = "S" -> "s" [] ch = "U" -> "u"

\* c.lower()
Lower(c) == [i \in 1..Len(c) |-> LowerChar(c[i])]

\* sub in c
Contem(c, sub) ==
    \E i \in 1..(Len(c) - Len(sub) + 1) : SubSeq(c, i, i + Len(sub) - 1) = sub

\* re.search(r"^Unnamed", c)
ComecaComUnnamed(c) ==
    LET p == <<"U", "n", "n", "a", "m", "e", "d">>
    IN  Len(c) >= Len(p) /\ SubSeq(c, 1, Len(p)) = p

\* the elements of a sequence that belong to conj, in order
RECURSIVE Filtrar(_, _)
Filtrar(seq, conj) ==
    IF seq = <<>> THEN <<>>
    ELSE IF Head(seq) \in conj THEN <<Head(seq)>> \o Filtrar(Tail(seq), conj)
    ELSE Filtrar(Tail(seq), conj)

Elementos(seq) == {seq[i] : i \in 1..Len(seq)}

-----------------------------------------------------------------------------
(* DataFrame: columns in order, a dtype per column, row labels, cells *)

Ausente == [tipo |-> "ausente"]
SemCache == [tipo |-> "semcache"]
Nenhum == [tipo |-> "nenhum"]

NLinhas(t) == Len(t.index)

\* dtype pandas gives a column read with dtype_backend="numpy_nullable"
DtypeLido(celulas) ==
    LET ks == {celulas[i].k : i \in 1..Len(celulas)} \ {"na"}
    IN  IF ks = {"num"} THEN "Int64"
        ELSE IF ks = {"date"} THEN "datetime64[ns]"
        ELSE IF ks = {"txt"} THEN "string"
        ELSE "object"

\* read_excel's default na_values turn the text N/A into a missing value
CelulaLida(c) == IF c.k = "txt" /\ c.s = "N/A" THEN NA ELSE c

\* pd.read_excel(caminho, sheet_name=0, dtype_backend="numpy_nullable")
read_excel(wb) ==
    LET lida == [c \in Elementos(wb.columns) |->
                    [i \in 1..Len(wb.data[c]) |-> CelulaLida(wb.data[c][i])]]
    IN  [tipo |-> "df",
         columns |-> wb.columns,
         dtype |-> [c \in Elementos(wb.columns) |-> DtypeLido(lida[c])],
         index |-> [i \in 1..wb.n |-> i - 1],
         data |-> lida]

\* one value under pd.to_datetime(..., errors="coerce")
ParaData(c) ==
    CASE c.k = "date" -> c
      [] c.k = "num" -> Data(c.n)
      [] c.k = "txt" -> IF c.s \in TextosData THEN Data(DiaDe(c.s)) ELSE NA
      [] OTHER -> NA

possiveis_datas_date(t) ==
    {c \in Elementos(t.columns) : Contem(Lower(c), <<"d", "a", "t", "e">>)}

\* possiveis_datas = [c for c in df.columns if "data" in c.lower()]
possiveis_datas(t) ==
    {c \in Elementos(t.columns) : Contem(Lower(c), <<"d", "a", "t", "a">>)}

\* the body of carregar_excel once the file exists; falha is the set of
\* columns on which pd.to_datetime raised (swallowed by except/pass)
carregar_corpo(wb, falha) ==
    LET lido == read_excel(wb)
        conv == possiveis_datas(lido) \ falha
        fica == Filtrar(lido.columns, {c \in Elementos(lido.columns) : ~ComecaComUnnamed(c)})
    IN  [tipo |-> "df",
         columns |-> fica,
         dtype |-> [c \in Elementos(fica) |->
                       IF c \in conv THEN "datetime64[ns]" ELSE lido.dtype[c]],
         index |-> lido.index,
         data |-> [c \in Elementos(fica) |->
                      IF c \in conv
                      THEN [i \in 1..Len(lido.data[c]) |-> ParaData(lido.data[c][i])]
                      ELSE lido.data[c]]]

\* pd.api.types.is_numeric_dtype
is_numeric_dtype(d) == d \in {"Int64", "Float64"}

\* identificar_colunas(df)
identificar_num(t) == Filtrar(t.columns, {c \in Elementos(t.columns) : is_numeric_dtype(t.dtype[c])})
identificar_cat(t) == Filtrar(t.columns, {c \in Elementos(t.columns) : ~is_numeric_dtype(t.dtype[c])})

\* division rounding to the nearest integer (b > 0, a >= 0)
DivArred(a, b) == (2 * a + b) \div (2 * b)

\* tabela_tipos(df): per column the dtype and the null percentage in hundredths
tabela_tipos(t) ==
    LET n == NLinhas(t)
    IN  [i \in 1..Len(t.columns) |->
            LET col == t.columns[i]
                nulls == Cardinality({j \in 1..n : t.data[col][j].k = "na"})
            IN  [coluna |-> col,
                 dtype |-> t.dtype[col],
                 pct_nulos |-> IF n # 0 THEN DivArred(nulls * 10000, n) ELSE 0]]

-----------------------------------------------------------------------------
(* Numbers: finite fixed-point values, NaN and the infinities *)

NaN == [t |-> "nan", v |-> 0]
Fin(x) == [t |-> "fin", v |-> x]
Inf(sg) == [t |-> "inf", v |-> sg]

isna(x) == x.t = "nan"

Abs(a) == IF a < 0 THEN -a ELSE a
Sinal(a) == IF a > 0 THEN 1 ELSE IF a < 0 THEN -1 ELSE 0

\* a / b rounded towards zero (b > 0)
TruncDiv(a, b) == IF a >= 0 THEN a \div b ELSE -((-a) \div b)

\* floor of the square root, by Newton's iteration from above
RECURSIVE RaizIter(_, _)
RaizIter(x, r) ==
    LET y == (r + x \div r) \div 2
    IN  IF y >= r THEN r ELSE RaizIter(x, y)

Raiz(x) == IF x <= 0 THEN 0 ELSE RaizIter(x, x)

RECURSIVE Soma(_)
Soma(xs) == IF xs = <<>> THEN 0 ELSE Head(xs) + Soma(Tail(xs))

RECURSIVE SomaQ(_)
SomaQ(xs) == IF xs = <<>> THEN 0 ELSE Head(xs) * Head(xs) + SomaQ(Tail(xs))

RECURSIVE Inserir(_, _)
Inserir(x, ord) ==
    IF ord = <<>> THEN <<x>>
    ELSE IF x <= Head(ord) THEN <<x>> \o ord
    ELSE <<Head(ord)>> \o Inserir(x, Tail(ord))

RECURSIVE Ordenar(_)
Ordenar(xs) == IF xs = <<>> THEN <<>> ELSE Inserir(Head(xs), Ordenar(Tail(xs)))

\* one value under pd.to_numeric(..., errors="coerce"): a number or missing
ParaNumero(c) ==
    CASE c.k = "num" -> c
      [] c.k = "date" -> Num(c.n)
      [] c.k = "txt" -> IF c.s \in TextosNumero THEN Num(ValorDe(c.s)) ELSE NA
      [] OTHER -> NA

\* pd.to_numeric(serie, errors="coerce")
to_numeric(celulas) == [i \in 1..Len(celulas) |-> ParaNumero(celulas[i])]

\* the non-missing values of a coerced series, in order
RECURSIVE Validos(_)
Validos(celulas) ==
    IF celulas = <<>> THEN <<>>
    ELSE IF Head(celulas).k = "num" THEN <<Head(celulas).n>> \o Validos(Tail(celulas))
    ELSE Validos(Tail(celulas))

\* serie.dropna()
dropna(celulas) == LET xs == Validos(celulas) IN [i \in 1..Len(xs) |-> Num(xs[i])]

count_todos(celulas) == Len(celulas)

\* serie.count()
count(celulas) == Len(Validos(celulas))

\* serie.mean()
mean(xs) == IF xs = <<>> THEN NaN ELSE Fin(TruncDiv(Soma(xs) * Escala, Len(xs)))

\* serie.median()
median(xs) ==
    LET o == Ordenar(xs)
        n == Len(xs)
    IN  IF n = 0 THEN NaN
        ELSE IF n % 2 = 1 THEN Fin(o[(n + 1) \div 2] * Escala)
        ELSE Fin(TruncDiv((o[n \div 2] + o[n \div 2 + 1]) * Escala, 2))

\* serie.var(ddof=1)
var(xs) ==
    LET n == Len(xs)
    IN  IF n < 2 THEN NaN
        ELSE Fin(TruncDiv((n * SomaQ(xs) - Soma(xs) * Soma(xs)) * Escala, n * (n - 1)))

\* serie.std(ddof=1)
std(xs) == LET v == var(xs) IN IF isna(v) THEN NaN ELSE Fin(Raiz(v.v * Escala))

\* serie.min(), serie.max()
min(xs) == IF xs = <<>> THEN NaN ELSE Fin(Ordenar(xs)[1] * Escala)
max(xs) == IF xs = <<>> THEN NaN ELSE Fin(Ordenar(xs)[Len(xs)] * Escala)

\* estatisticas_basicas(df, colunas_numericas)
estatisticas_basicas(t, colunas_numericas) ==
    IF colunas_numericas = <<>> THEN <<>>
    ELSE [i \in 1..Len(colunas_numericas) |->
            LET c == colunas_numericas[i]
                serie == to_numeric(t.data[c])
                xs == Validos(serie)
            IN  [coluna |-> c,
                 count |-> count(serie),
                 mean |-> IF count(serie) # 0 THEN mean(xs) ELSE NaN,
                 median |-> IF count(serie) # 0 THEN median(xs) ELSE NaN,
                 std |-> IF count(serie) > 1 THEN std(xs) ELSE NaN,
                 var |-> IF count(serie) > 1 THEN var(xs) ELSE NaN,
                 min |-> IF count(serie) # 0 THEN min(xs) ELSE NaN,
                 max |-> IF count(serie) # 0 THEN max(xs) ELSE NaN]]

\* significance levels in thousandths
Alfas == {50, 100, 500}

\* two-sided critical values of Student's t, in thousandths, by degrees of freedom
TabelaT ==
    [a \in Alfas |->
        CASE a = 50 -> <<12706, 4303, 3182, 2776, 2571, 2447, 2365, 2306>>
          [] a = 100 -> <<6314, 2920, 2353, 2132, 2015, 1943, 1895, 1860>>
          [] a = 500 -> <<1000, 816, 765, 741, 727, 718, 711, 706>>]
NormalT == [a \in Alfas |-> CASE a = 50 -> 1960 [] a = 100 -> 1645 [] a = 500 -> 674]

\* stats.t.ppf(1 - alpha / 2, df=gl)
t_ppf(alpha, gl) ==
    LET milesimos == IF gl <= Len(TabelaT[alpha]) THEN TabelaT[alpha][gl] ELSE NormalT[alpha]
    IN  (milesimos * Escala) \div 1000

ic_media_sem_zero(amostra, alpha) ==
    LET xs == Validos(to_numeric(amostra))
        n == Len(xs)
        media == IF n # 0 THEN mean(xs) ELSE NaN
        s == IF n > 1 THEN std(xs) ELSE NaN
    IN  IF n <= 1 \/ isna(s)
        THEN [media |-> media, inf |-> NaN, sup |-> NaN]
        ELSE LET t_crit == t_ppf(alpha, n - 1)
                 err == (t_crit * s.v) \div Raiz(n * Escala * Escala)
             IN  [media |-> media, inf |-> Fin(media.v - err), sup |-> Fin(media.v + err)]

\* ic_media(amostra, alpha)
ic_media(amostra, alpha) ==
    LET xs == Validos(to_numeric(amostra))
        n == Len(xs)
        media == IF n # 0 THEN mean(xs) ELSE NaN
        s == IF n > 1 THEN std(xs) ELSE NaN
    IN  IF n <= 1 \/ isna(s) \/ s.v = 0
        THEN [media |-> media, inf |-> NaN, sup |-> NaN]
        ELSE LET t_crit == t_ppf(alpha, n - 1)
                 err == (t_crit * s.v) \div Raiz(n * Escala * Escala)
             IN  [media |-> media, inf |-> Fin(media.v - err), sup |-> Fin(media.v + err)]

-----------------------------------------------------------------------------
(* Sampler *)

\* the rows of t at the positions pos (increasing), with their labels
Selecionar(t, pos) ==
    [tipo |-> "df",
     columns |-> t.columns,
     dtype |-> t.dtype,
     index |-> [i \in 1..Len(pos) |-> t.index[pos[i]]],
     data |-> [c \in Elementos(t.columns) |-> [i \in 1..Len(pos) |-> t.data[c][pos[i]]]]]

Posicoes(t) == [i \in 1..NLinhas(t) |-> i]

sample_com_reposicao(t, n) ==
    {Selecionar(t, pos) : pos \in [1..n -> 1..NLinhas(t)]}

\* df.sample(n=n, random_state=seed): n distinct rows; which ones is the
\* generator's choice, so every choice is a possible outcome
sample(t, n) ==
    {Selecionar(t, Filtrar(Posicoes(t), P)) :
        P \in {Q \in SUBSET (1..NLinhas(t)) : Cardinality(Q) = n}}

\* amostrar_df(df, n): the set of tables it may return
amostrar_df(t, n) == IF n >= NLinhas(t) THEN {t} ELSE sample(t, n)

\* df[cols]
Projetar(t, cols) ==
    [tipo |-> "df",
     columns |-> cols,
     dtype |-> [c \in Elementos(cols) |-> t.dtype[c]],
     index |-> t.index,
     data |-> [c \in Elementos(cols) |-> t.data[c]]]

-----------------------------------------------------------------------------
(* Welch's test as scipy.stats.ttest_ind(a, b, equal_var=False) computes it *)

\* n * sum(x^2) - sum(x)^2, the numerator of the sample variance
NumVar(xs) == Len(xs) * SomaQ(xs) - Soma(xs) * Soma(xs)

\* Welch-Satterthwaite degrees of freedom, rounded down; 1 when undefined
GrausWelch(a, b) ==
    LET n1 == Len(a)
        n2 == Len(b)
        c1 == n1 * n1 * (n1 - 1)
        c2 == n2 * n2 * (n2 - 1)
        a1 == NumVar(a)
        a2 == NumVar(b)
        num == (a1 * c2 + a2 * c1) * (a1 * c2 + a2 * c1) * (n1 - 1) * (n2 - 1)
        den == a1 * a1 * c2 * c2 * (n2 - 1) + a2 * a2 * c1 * c1 * (n1 - 1)
    IN  IF den = 0 THEN 1 ELSE num \div den

\* 2 * t.sf(|t|, gl), rounded up to the grid 0.05, 0.10, 0.50, 1
p_bicaudal(t, gl) ==
    CASE t.t = "nan" -> NaN
      [] t.t = "inf" -> Fin(0)
      [] OTHER ->
            LET m == Abs(t.v)
            IN  IF m >= t_ppf(50, gl) THEN Fin((50 * Escala) \div 1000)
                ELSE IF m >= t_ppf(100, gl) THEN Fin((100 * Escala) \div 1000)
                ELSE IF m >= t_ppf(500, gl) THEN Fin((500 * Escala) \div 1000)
                ELSE Fin(Escala)

t_welch_invertido(a, b) ==
    IF Len(a) < 2 \/ Len(b) < 2 THEN NaN
    ELSE LET d == mean(b).v - mean(a).v
             vn1 == TruncDiv(var(a).v * Escala, Len(a))
             vn2 == TruncDiv(var(b).v * Escala, Len(b))
             denom == Raiz(vn1 + vn2)
         IN  IF denom = 0 THEN (IF d = 0 THEN NaN ELSE Inf(Sinal(d)))
             ELSE Fin(TruncDiv(d * Escala, denom))

\* the t-statistic: (mean1 - mean2) / sqrt(v1/n1 + v2/n2)
t_welch(a, b) ==
    IF Len(a) < 2 \/ Len(b) < 2 THEN NaN
    ELSE LET d == mean(a).v - mean(b).v
             vn1 == TruncDiv(var(a).v * Escala, Len(a))
             vn2 == TruncDiv(var(b).v * Escala, Len(b))
             denom == Raiz(vn1 + vn2)
         IN  IF denom = 0 THEN (IF d = 0 THEN NaN ELSE Inf(Sinal(d)))
             ELSE Fin(TruncDiv(d * Escala, denom))

\* stats.ttest_ind(df_a, df_b, equal_var=False, nan_policy="omit")
ttest_ind(df_a, df_b) ==
    LET a == Validos(df_a)
        b == Validos(df_b)
        t == t_welch(a, b)
    IN  [t_stat |-> t, p_val |-> p_bicaudal(t, GrausWelch(a, b))]

-----------------------------------------------------------------------------
(* Panels *)

\* str(x) of a cell, as .astype(str) gives it
AsStr(c) ==
    CASE c.k = "txt" -> c.s
      [] c.k = "date" -> TextoDeDia(c.n)
      [] c.k = "num" -> TextoDeNumero(c.n)
      [] OTHER -> "<NA>"

\* distinct elements in order of first appearance
RECURSIVE Unicos(_, _)
Unicos(seq, vistos) ==
    IF seq = <<>> THEN <<>>
    ELSE IF Head(seq) \in vistos THEN Unicos(Tail(seq), vistos)
    ELSE <<Head(seq)>> \o Unicos(Tail(seq), vistos \cup {Head(seq)})

\* df_viz[grupo].dropna().astype(str).unique().tolist()
Categorias(t, grupo) ==
    LET col == t.data[grupo]
        presentes == Filtrar([i \in 1..Len(col) |-> i], {i \in 1..Len(col) : col[i].k # "na"})
    IN  Unicos([i \in 1..Len(presentes) |-> AsStr(col[presentes[i]])], {})

\* pd.to_numeric(df_viz.loc[df_viz[grupo].astype(str) == cat, metrica], errors="coerce").dropna()
ValoresDoGrupo(t, grupo, metrica, cat) ==
    LET pos == Filtrar(Posicoes(t), {i \in 1..NLinhas(t) : AsStr(t.data[grupo][i]) = cat})
    IN  dropna(to_numeric([i \in 1..Len(pos) |-> t.data[metrica][pos[i]]]))

\* sequences of distinct elements of a set
SeqsDistintas(S) ==
    UNION {{q \in [1..k -> S] : \A i, j \in 1..k : i # j => q[i] # q[j]} :
             k \in 0..Cardinality(S)}

Maior(a, b) == IF a >= b THEN a ELSE b
Menor(a, b) == IF a <= b THEN a ELSE b

\* "Tamanho minimo por grupo": st.slider(5, 200, 20, 5), scaled to the model's tables
MinAmostraOpcoes == {2, 3}
\* "Tamanho da amostra": st.sidebar.slider(500, 20000, 3000, 500), scaled likewise
TamAmostraOpcoes == {2, 4}

ResumoVazio == [estado |-> "desligado", cols |-> <<>>, entrada |-> Nenhum, linhas |-> <<>>]

TabelaDoResumo_amostra(base, amostra) == amostra

\* which table the "Estatisticas" panel hands to estatisticas_basicas
TabelaDoResumo(base, amostra) == base

\* the "Estatisticas" panel: the set of its possible outputs
PainelEstatisticas(base, amostra, num, ligado) ==
    IF ~ligado THEN {ResumoVazio}
    ELSE IF num = <<>> THEN {[ResumoVazio EXCEPT !.estado = "sem_numericas"]}
    ELSE {LET cols_sel == SubSeq(sel, 1, Menor(max_cols, Len(sel)))
          IN  IF cols_sel = <<>> THEN [ResumoVazio EXCEPT !.estado = "sem_selecao"]
              ELSE LET entrada == Projetar(TabelaDoResumo(base, amostra), cols_sel)
                   IN  [estado |-> "tabela", cols |-> cols_sel, entrada |-> entrada,
                        linhas |-> estatisticas_basicas(entrada, cols_sel)] :
            sel \in SeqsDistintas(Elementos(num)),
            max_cols \in 1..Maior(1, Len(num))}

IcVazio == [media |-> NaN, inf |-> NaN, sup |-> NaN]

WelchVazio ==
    [estado |-> "desligado", metrica |-> <<>>, grupo |-> <<>>, categorias |-> <<>>,
     cat1 |-> "", cat2 |-> "", min_amostra |-> 0, df_a |-> <<>>, df_b |-> <<>>,
     ic_a |-> IcVazio, ic_b |-> IcVazio, delta |-> NaN, t_stat |-> NaN, p_val |-> NaN]

SuficienteUmDos(df_a, df_b, min_amostra) ==
    Len(df_a) >= min_amostra \/ Len(df_b) >= min_amostra

\* the comparison of line 357
Suficiente(df_a, df_b, min_amostra) == Len(df_a) >= min_amostra /\ Len(df_b) >= min_amostra

\* the body of the "Teste t (Welch)" panel once the labels are chosen
TesteDosGrupos(t, metrica, grupo, cat1, cat2, min_amostra) ==
    LET df_a == ValoresDoGrupo(t, grupo, metrica, cat1)
        df_b == ValoresDoGrupo(t, grupo, metrica, cat2)
        base == [WelchVazio EXCEPT !.metrica = metrica, !.grupo = grupo,
                                   !.categorias = Categorias(t, grupo),
                                   !.cat1 = cat1, !.cat2 = cat2,
                                   !.min_amostra = min_amostra,
                                   !.df_a = df_a, !.df_b = df_b]
    IN  IF Suficiente(df_a, df_b, min_amostra)
        THEN LET ic_a == ic_media(df_a, 50)
                 ic_b == ic_media(df_b, 50)
                 tt == ttest_ind(df_a, df_b)
             IN  [base EXCEPT !.estado = "calculado", !.ic_a = ic_a, !.ic_b = ic_b,
                              !.delta = Fin(ic_a.media.v - ic_b.media.v),
                              !.t_stat = tt.t_stat, !.p_val = tt.p_val]
        ELSE [base EXCEPT !.estado = "insuficiente"]

\* the labels the two select boxes let the user choose
RotulosPermitidos(categorias) == Elementos(categorias) \X Elementos(categorias)

\* the "Teste t (Welch)" panel: the set of its possible outputs
PainelWelch(t, num, cat, ligado) ==
    IF ~ligado THEN {WelchVazio}
    ELSE IF num = <<>> \/ cat = <<>> THEN {[WelchVazio EXCEPT !.estado = "sem_selecao"]}
    ELSE UNION {
            LET categorias == Categorias(t, grupo)
            IN  IF Len(categorias) < 2
                THEN {[WelchVazio EXCEPT !.estado = "poucos_grupos", !.metrica = metrica,
                                         !.grupo = grupo, !.categorias = categorias]}
                ELSE {TesteDosGrupos(t, metrica, grupo, par[1], par[2], m) :
                        par \in RotulosPermitidos(categorias), m \in MinAmostraOpcoes} :
            metrica \in Elementos(num), grupo \in Elementos(cat)}

-----------------------------------------------------------------------------
(* One execution of the script *)

MsgNaoEncontrado == "Nao encontrei data/df_selecionado.xlsx. Verifique o caminho/arquivo."

ExecutaCorpo_sempre(cache, arq) == TRUE

\* whether a call of carregar_excel() executes the function body: st.cache_data
\* keys the entry on the function and its arguments, and there are none
ExecutaCorpo(cache, arq) == cache = SemCache

TabelaVazia ==
    [tipo |-> "df", columns |-> <<>>, dtype |-> <<>>, index |-> <<>>, data |-> <<>>]

carregar_excel_sem_erro(cache, arq) ==
    IF ~ExecutaCorpo(cache, arq) THEN {[carga |-> "cache", df |-> cache, erro |-> ""]}
    ELSE IF arq = Ausente THEN {[carga |-> "leu", df |-> TabelaVazia, erro |-> ""]}
    ELSE {[carga |-> "leu", df |-> carregar_corpo(arq, falha), erro |-> ""] :
            falha \in SUBSET possiveis_datas(arq)}

\* carregar_excel() under st.cache_data: the set of its possible outcomes
carregar_excel(cache, arq) ==
    IF ~ExecutaCorpo(cache, arq) THEN {[carga |-> "cache", df |-> cache, erro |-> ""]}
    ELSE IF arq = Ausente THEN {[carga |-> "erro", df |-> Nenhum, erro |-> MsgNaoEncontrado]}
    ELSE {[carga |-> "leu", df |-> carregar_corpo(arq, falha), erro |-> ""] :
            falha \in SUBSET possiveis_datas(arq)}

\* lines 123-401: load, stop on failure, classify, sample, render the panels
Rerun(USAR_AMOSTRA, TAM_AMOSTRA, stats_toggle, welch_toggle) ==
    \E r \in carregar_excel(cache_carregar, arquivo) :
        /\ sidebar' = [USAR_AMOSTRA |-> USAR_AMOSTRA, TAM_AMOSTRA |-> TAM_AMOSTRA]
        /\ carga' = [resultado |-> r.carga, arquivo |-> arquivo, cache |-> cache_carregar]
        /\ erro' = r.erro
        /\ df' = r.df
        /\ UNCHANGED <<arquivo, ic>>
        /\ IF r.carga = "erro"
           THEN \* st.error(...); st.stop()
                /\ UNCHANGED cache_carregar
                /\ colunas_num' = Nenhum
                /\ colunas_cat' = Nenhum
                /\ df_viz' = Nenhum
                /\ tipos' = Nenhum
                /\ resumo' = Nenhum
                /\ welch' = Nenhum
           ELSE /\ cache_carregar' = r.df
                /\ colunas_num' = identificar_num(r.df)
                /\ colunas_cat' = identificar_cat(r.df)
                /\ df_viz' \in (IF USAR_AMOSTRA THEN amostrar_df(r.df, TAM_AMOSTRA) ELSE {r.df})
                /\ tipos' = tabela_tipos(r.df)
                /\ resumo' \in PainelEstatisticas(r.df, df_viz', colunas_num', stats_toggle)
                /\ welch' \in PainelWelch(df_viz', colunas_num', colunas_cat', welch_toggle)

\* the environment replaces or removes data/df_selecionado.xlsx
GravarArquivo(wb) ==
    /\ arquivo # wb
    /\ arquivo' = wb
    /\ UNCHANGED <<cache_carregar, sidebar, carga, erro, df, colunas_num, colunas_cat,
                   df_viz, tipos, resumo, welch, ic>>

RemoverArquivo ==
    /\ arquivo # Ausente
    /\ arquivo' = Ausente
    /\ UNCHANGED <<cache_carregar, sidebar, carga, erro, df, colunas_num, colunas_cat,
                   df_viz, tipos, resumo, welch, ic>>

-----------------------------------------------------------------------------
(* Workbooks *)

Planilha(cols, corpos) ==
    [tipo |-> "wb", columns |-> cols, n |-> 2, data |-> corpos]

NomesPlanilha == <<OrderDate, DataPedido, Qty, UnnamedCol>>

\* two-row column contents: text dates, N/A, other text, date cells, numbers
Corpos ==
    {<<Txt("2024-01-05"), Txt("N/A")>>,
     <<Txt("2024-01-05"), Txt("2024-01-06")>>,
     <<Txt("foo"), Txt("2024-01-05")>>,
     <<Data(5), Txt("N/A")>>,
     <<Data(5), Txt("foo")>>,
     <<Num(1), Num(4)>>,
     <<Num(1), NA>>,
     <<Txt("a"), Txt("b")>>}

Planilhas ==
    UNION {{Planilha(Filtrar(NomesPlanilha, S), corpos) : corpos \in [S -> Corpos]} :
             S \in {T \in SUBSET Elementos(NomesPlanilha) :
                      Cardinality(T) >= 1 /\ Cardinality(T) <= MaxColunas}}

\* contents the environment may later write over the file
Regravadas ==
    {Planilha(<<DataPedido>>, [c \in {DataPedido} |-> <<Txt("2024-01-06"), Txt("foo")>>]),
     Planilha(<<Qty>>, [c \in {Qty} |-> <<Num(2), Num(3)>>])}

\* rows of the tables of the analysis panels: (Qty, Status)
LinhasPainel ==
    <<[q |-> Num(1), g |-> Txt("a")], [q |-> Num(2), g |-> Txt("a")],
      [q |-> Num(1), g |-> Txt("b")], [q |-> Num(2), g |-> Txt("b")], [q |-> NA, g |-> Txt("b")],
      [q |-> Num(1), g |-> NA]>>

\* loaded tables with a numeric column Qty and a text column Status; the
\* panels do not depend on the order of the rows, one order per multiset
TabelasPainel ==
    {[tipo |-> "df",
      columns |-> <<Qty, Status>>,
      dtype |-> [c \in {Qty, Status} |-> IF c = Qty THEN "Int64" ELSE "string"],
      index |-> [i \in 1..Len(ks) |-> i - 1],
      data |-> [c \in {Qty, Status} |->
                  [i \in 1..Len(ks) |-> IF c = Qty THEN LinhasPainel[ks[i]].q
                                        ELSE LinhasPainel[ks[i]].g]]] :
        ks \in UNION {{q \in [1..n -> 1..Len(LinhasPainel)] :
                         \A i \in 1..(n - 1) : q[i] <= q[i + 1]} : n \in 0..MaxLinhas}}

\* cells of the samples handed directly to the pure functions
CelulasFn == {Num(1), Num(2), Txt("4"), Txt("x"), NA}

\* a table of two columns of unparsed cells: Qty holds xs, Status a 3 and blanks
TabelaFn(xs) ==
    [tipo |-> "df",
     columns |-> <<Qty, Status>>,
     dtype |-> [c \in {Qty, Status} |-> "object"],
     index |-> [i \in 1..Len(xs) |-> i - 1],
     data |-> [c \in {Qty, Status} |->
                 IF c = Qty THEN xs ELSE [i \in 1..Len(xs) |-> IF i = 1 THEN Num(3) ELSE NA]]]

TabelasFn == {TabelaFn(xs) : xs \in UNION {[1..m -> CelulasFn] : m \in 0..MaxLen}}

-----------------------------------------------------------------------------
(* Specifications *)

NaoChamado == [resultado |-> "nenhuma", arquivo |-> Ausente, cache |-> SemCache]

SemExecucao ==
    /\ sidebar = Nenhum
    /\ carga = NaoChamado
    /\ erro = ""
    /\ df = Nenhum
    /\ colunas_num = Nenhum
    /\ colunas_cat = Nenhum
    /\ df_viz = Nenhum
    /\ tipos = Nenhum
    /\ resumo = Nenhum
    /\ welch = Nenhum
    /\ ic = Nenhum

\* the loader: the process starts with an empty cache and any file, or none
InitCarga ==
    /\ arquivo \in Planilhas \cup {Ausente}
    /\ cache_carregar = SemCache
    /\ SemExecucao

\* runs in light mode (both panel toggles at their default, off)
RerunLeve == \E usar \in BOOLEAN, tam \in TamAmostraOpcoes : Rerun(usar, tam, FALSE, FALSE)

Regravar == \E wb \in Regravadas : GravarArquivo(wb)

NextCarga == RerunLeve \/ Regravar \/ RemoverArquivo

SpecCarga == InitCarga /\ [][NextCarga]_vars

\* the panels: a table was loaded by an earlier run and sits in the cache
InitPainel ==
    /\ cache_carregar \in TabelasPainel
    /\ arquivo = Ausente
    /\ SemExecucao

\* A run overwrites every output and reads only the cache and the file, which
\* no step of this specification changes after the run: the states a session's
\* later runs reach are those its first run reaches.
RerunPainel ==
    /\ carga = NaoChamado
    /\ \E usar \in BOOLEAN, tam \in TamAmostraOpcoes, st \in BOOLEAN, w \in BOOLEAN :
            Rerun(usar, tam, st, w)

NextPainel == RerunPainel

SpecPainel == InitPainel /\ [][NextPainel]_vars

\* the pure functions, called directly on a table of unparsed cells
InitFn ==
    /\ df \in TabelasFn
    /\ arquivo = Ausente
    /\ cache_carregar = SemCache
    /\ sidebar = Nenhum
    /\ carga = NaoChamado
    /\ erro = ""
    /\ colunas_num = Nenhum
    /\ colunas_cat = Nenhum
    /\ df_viz = Nenhum
    /\ tipos = Nenhum
    /\ resumo = Nenhum
    /\ welch = Nenhum
    /\ ic = Nenhum

ChamarIcMedia ==
    \E alpha \in Alfas :
        /\ ic' = [amostra |-> df.data[Qty], alpha |-> alpha, r |-> ic_media(df.data[Qty], alpha)]
        /\ UNCHANGED <<arquivo, cache_carregar, sidebar, carga, erro, df, colunas_num, colunas_cat,
                       df_viz, tipos, resumo, welch>>

ChamarEstatisticas ==
    \E cols \in {<<>>, <<Qty>>, <<Status, Qty>>} :
        /\ resumo' = [estado |-> "tabela", cols |-> cols, entrada |-> df,
                      linhas |-> estatisticas_basicas(df, cols)]
        /\ UNCHANGED <<arquivo, cache_carregar, sidebar, carga, erro, df, colunas_num, colunas_cat,
                       df_viz, tipos, welch, ic>>

NextFn == ChamarIcMedia \/ ChamarEstatisticas

SpecFn == InitFn /\ [][NextFn]_vars

-----------------------------------------------------------------------------
(* Properties *)

Executou == carga.resultado \in {"leu", "cache"}

\* the cells of a column that numeric coercion keeps: numbers and numerals
Coagivel(c) == c.k = "num" \/ (c.k = "txt" /\ c.s \in TextosNumero)
ValorCoagido(c) == IF c.k = "num" THEN c.n ELSE ValorDe(c.s)

\* rows of t of group cat with a non-missing metric
LinhasValidas(t, grupo, metrica, cat) ==
    {i \in 1..NLinhas(t) : AsStr(t.data[grupo][i]) = cat /\ Coagivel(t.data[metrica][i])}

RotulosEscolhidos == Executou /\ welch.estado \in {"calculado", "insuficiente"}

\* C1: once the labels are chosen the panel reports "insufficient data" exactly
\* when one group's non-missing count is below the threshold; the warning
\* carries both counts and no interval, difference, t or p is computed; with
\* both counts at or above the threshold the test is computed.
C1_InsuficienteSse ==
    RotulosEscolhidos =>
        LET n_a == Cardinality(LinhasValidas(df_viz, welch.grupo, welch.metrica, welch.cat1))
            n_b == Cardinality(LinhasValidas(df_viz, welch.grupo, welch.metrica, welch.cat2))
        IN  /\ Len(welch.df_a) = n_a
            /\ Len(welch.df_b) = n_b
            /\ (welch.estado = "insuficiente") <=>
                   (n_a < welch.min_amostra \/ n_b < welch.min_amostra)
            /\ welch.estado = "insuficiente" =>
                   /\ welch.ic_a = IcVazio /\ welch.ic_b = IcVazio
                   /\ welch.delta = NaN /\ welch.t_stat = NaN /\ welch.p_val = NaN
            /\ welch.estado = "calculado" =>
                   /\ welch.ic_a = ic_media(welch.df_a, 50)
                   /\ welch.ic_b = ic_media(welch.df_b, 50)
                   /\ welch.t_stat = ttest_ind(welch.df_a, welch.df_b).t_stat
                   /\ welch.p_val = ttest_ind(welch.df_a, welch.df_b).p_val

\* group A meets the threshold, group B does not
C1_Witness ==
    /\ RotulosEscolhidos
    /\ welch.estado = "insuficiente"
    /\ welch.cat1 # welch.cat2
    /\ Len(welch.df_a) >= welch.min_amostra
    /\ Len(welch.df_b) < welch.min_amostra
    /\ Len(welch.df_b) > 0

\* C2: ic_media returns undefined bounds exactly when at most one value
\* survives coercion or the surviving values are all equal (standard
\* deviation 0); otherwise inf < media < sup; the mean is returned whenever
\* at least one value survives.
C2_IcIndefinidoSse ==
    ic # Nenhum =>
        LET vivos == {i \in 1..Len(ic.amostra) : Coagivel(ic.amostra[i])}
            n == Cardinality(vivos)
            iguais == \A i, j \in vivos :
                         ValorCoagido(ic.amostra[i]) = ValorCoagido(ic.amostra[j])
        IN  /\ (isna(ic.r.inf) /\ isna(ic.r.sup)) <=> (n <= 1 \/ iguais)
            /\ isna(ic.r.inf) <=> isna(ic.r.sup)
            /\ ~isna(ic.r.inf) =>
                   /\ ic.r.inf.t = "fin" /\ ic.r.sup.t = "fin" /\ ic.r.media.t = "fin"
                   /\ ic.r.inf.v < ic.r.media.v
                   /\ ic.r.media.v < ic.r.sup.v
            /\ n >= 1 => ic.r.media.t = "fin"
            /\ n = 0 => isna(ic.r.media)

\* two or more surviving values, all equal, beside an uncoercible one
C2_Witness ==
    /\ ic # Nenhum
    /\ Cardinality({i \in 1..Len(ic.amostra) : Coagivel(ic.amostra[i])}) = 2
    /\ \E i \in 1..Len(ic.amostra) : ic.amostra[i] = Txt("x")
    /\ isna(ic.r.inf)
    /\ ic.r.media.t = "fin"

\* C3: with sampling on, a requested size of at least the row count gives the
\* table itself; a smaller one gives exactly that many distinct rows, each a
\* row of the table; the sample never has more rows than the table.
C3_Amostra ==
    (Executou /\ sidebar.USAR_AMOSTRA) =>
        LET N == sidebar.TAM_AMOSTRA
        IN  /\ NLinhas(df_viz) <= NLinhas(df)
            /\ N >= NLinhas(df) => df_viz = df
            /\ N < NLinhas(df) =>
                   /\ NLinhas(df_viz) = N
                   /\ df_viz.columns = df.columns
                   /\ df_viz.dtype = df.dtype
                   /\ \A i, j \in 1..N : i # j => df_viz.index[i] # df_viz.index[j]
                   /\ \A i \in 1..N : \E j \in 1..NLinhas(df) :
                          /\ df.index[j] = df_viz.index[i]
                          /\ \A c \in Elementos(df.columns) : df_viz.data[c][i] = df.data[c][j]

\* a sample strictly smaller than the table
C3_Witness ==
    /\ Executou
    /\ sidebar.USAR_AMOSTRA
    /\ sidebar.TAM_AMOSTRA < NLinhas(df)
    /\ NLinhas(df_viz) = sidebar.TAM_AMOSTRA

DiretoEstatisticas == carga = NaoChamado /\ resumo # Nenhum

\* C4: each row of estatisticas_basicas reports as count the number of values
\* that survive numeric coercion; min <= median <= max whenever count >= 1; std
\* and var are undefined when count < 2; mean, median, min and max are
\* undefined when count = 0.
C4_Resumo ==
    DiretoEstatisticas =>
        /\ Len(resumo.linhas) = Len(resumo.cols)
        /\ \A i \in 1..Len(resumo.linhas) :
              LET l == resumo.linhas[i]
                  col == df.data[resumo.cols[i]]
              IN  /\ l.coluna = resumo.cols[i]
                  /\ l.count = Cardinality({j \in 1..Len(col) : Coagivel(col[j])})
                  /\ l.count >= 1 =>
                         /\ l.min.t = "fin" /\ l.median.t = "fin" /\ l.max.t = "fin"
                         /\ l.mean.t = "fin"
                         /\ l.min.v <= l.median.v
                         /\ l.median.v <= l.max.v
                  /\ l.count < 2 => (isna(l.std) /\ isna(l.var))
                  /\ l.count = 0 =>
                         (isna(l.mean) /\ isna(l.median) /\ isna(l.min) /\ isna(l.max))

\* three surviving values among uncoerced text, median strictly inside
C4_Witness ==
    /\ DiretoEstatisticas
    /\ \E i \in 1..Len(resumo.linhas) :
          LET l == resumo.linhas[i]
          IN  /\ l.count = 3
              /\ \E j \in 1..Len(df.data[l.coluna]) : df.data[l.coluna][j] = Txt("4")
              /\ l.min.v < l.median.v
              /\ l.median.v < l.max.v

Chamou == carga.resultado # "nenhuma"

NadaRenderizado ==
    /\ df = Nenhum
    /\ colunas_num = Nenhum
    /\ colunas_cat = Nenhum
    /\ df_viz = Nenhum
    /\ tipos = Nenhum
    /\ resumo = Nenhum
    /\ welch = Nenhum

\* the run went past the load: classifier, sampler and panels were executed
Renderizado ==
    /\ df.tipo = "df"
    /\ df_viz.tipo = "df"
    /\ Len(colunas_num) + Len(colunas_cat) = Len(df.columns)
    /\ Len(tipos) = Len(df.columns)
    /\ resumo.estado = "desligado"
    /\ welch.estado = "desligado"

\* C5 as stated: whenever the file is absent when a run invokes the loader,
\* the load fails with the not-found error, the message is shown and nothing
\* after the load is executed.
C5_Original ==
    (Chamou /\ carga.arquivo = Ausente) =>
        (carga.resultado = "erro" /\ erro = MsgNaoEncontrado /\ NadaRenderizado)

\* C5 as amended: a run whose loader call finds the file absent and no
\* memoized table fails with the not-found error, shows the message and
\* executes nothing after the load; the error arises in no other case; with a
\* memoized table the run proceeds on that table although the file is absent.
C5_FalhaSemCache ==
    Chamou =>
        /\ (carga.arquivo = Ausente /\ carga.cache = SemCache) =>
               (carga.resultado = "erro" /\ erro = MsgNaoEncontrado /\ NadaRenderizado)
        /\ carga.resultado = "erro" => (carga.arquivo = Ausente /\ carga.cache = SemCache)
        /\ (carga.arquivo = Ausente /\ carga.cache # SemCache) =>
               (carga.resultado = "cache" /\ erro = "" /\ df = carga.cache /\ Renderizado)

\* the file is absent, nothing is memoized, the run has halted
C5_Witness ==
    /\ carga.resultado = "erro"
    /\ carga.arquivo = Ausente
    /\ erro = MsgNaoEncontrado
    /\ NadaRenderizado

\* the tables a load of workbook wb may produce
Carregaveis(wb) == {carregar_corpo(wb, falha) : falha \in SUBSET possiveis_datas(wb)}

\* C6 as stated: the table a run works on is the one parsed from the content
\* the file has when the loader is invoked (the memoized table is never stale).
C6_Original ==
    (Chamou /\ carga.arquivo # Ausente) =>
        (carga.resultado \in {"leu", "cache"} /\ df \in Carregaveis(carga.arquivo))

\* C6 as amended: the memoization is keyed on the function alone; once a load
\* has succeeded every later invocation returns that table without reading the
\* file, whatever the file now holds; an invocation with nothing memoized
\* reads the current file and memoizes the result; a failed load memoizes
\* nothing.
C6_MemoSemChave ==
    Chamou =>
        /\ carga.cache # SemCache =>
               (carga.resultado = "cache" /\ df = carga.cache /\ cache_carregar = carga.cache)
        /\ (carga.cache = SemCache /\ carga.arquivo # Ausente) =>
               /\ carga.resultado = "leu"
               /\ df \in Carregaveis(carga.arquivo)
               /\ cache_carregar = df
        /\ carga.resultado = "erro" => cache_carregar = SemCache

\* a run served a memoized table that the file's content no longer produces
C6_Witness ==
    /\ carga.resultado = "cache"
    /\ carga.arquivo # Ausente
    /\ df \notin Carregaveis(carga.arquivo)

CorpoComNA == <<Txt("2024-01-05"), Txt("N/A")>>
TemColuna(wb, c) == c \in Elementos(wb.columns)

\* the type report shows column c with dtype d and pct hundredths of a percent missing
TiposMostra(c, d, pct) ==
    \E i \in 1..Len(tipos) :
        tipos[i].coluna = c /\ tipos[i].dtype = d /\ tipos[i].pct_nulos = pct

\* C7 as stated: a loaded column named OrderDate holding a date and the entry
\* N/A is a date-time column with that entry missing, is classified as
\* categorical, and the report shows date-time with 50% missing.
C7_Original ==
    (carga.resultado = "leu" /\ TemColuna(carga.arquivo, OrderDate)
        /\ carga.arquivo.data[OrderDate] = CorpoComNA) =>
            /\ df.dtype[OrderDate] = "datetime64[ns]"
            /\ df.data[OrderDate][2] = NA
            /\ OrderDate \in Elementos(colunas_cat)
            /\ TiposMostra(OrderDate, "datetime64[ns]", 5000)

\* C7 as amended: the loader attempts date parsing on exactly the columns whose
\* lower-cased name contains "data" (DataPedido, not OrderDate); such a column
\* becomes date-time with every unparseable entry missing, unless the parser
\* raised, which leaves it as read; every other kept column is as read; no
\* Unnamed column is kept.  A DataPedido column holding a date and N/A, once
\* parsed, is date-time with that entry missing, categorical, reported with
\* 50% missing; an OrderDate column with the same cells stays text.
C7_RegraDoNome ==
    carga.resultado = "leu" =>
        LET wb == carga.arquivo
            lido == read_excel(wb)
        IN  /\ \A c \in Elementos(wb.columns) :
                  IF ComecaComUnnamed(c) THEN c \notin Elementos(df.columns)
                  ELSE /\ c \in Elementos(df.columns)
                       /\ IF c = DataPedido
                          THEN \/ /\ df.dtype[c] = "datetime64[ns]"
                                  /\ \A i \in 1..wb.n :
                                        /\ df.data[c][i].k \in {"date", "na"}
                                        /\ (wb.data[c][i].k = "txt"
                                              /\ wb.data[c][i].s \notin TextosData) =>
                                               df.data[c][i] = NA
                                        /\ wb.data[c][i].k \in {"date", "num"} =>
                                               df.data[c][i].k = "date"
                               \/ (df.dtype[c] = lido.dtype[c] /\ df.data[c] = lido.data[c])
                          ELSE df.dtype[c] = lido.dtype[c] /\ df.data[c] = lido.data[c]
            /\ (TemColuna(wb, DataPedido) /\ wb.data[DataPedido] = CorpoComNA) =>
                  /\ df.data[DataPedido][2] = NA
                  /\ DataPedido \in Elementos(colunas_cat)
                  /\ \/ /\ df.dtype[DataPedido] = "datetime64[ns]"
                        /\ df.data[DataPedido][1] = Data(5)
                        /\ TiposMostra(DataPedido, "datetime64[ns]", 5000)
                     \/ /\ df.dtype[DataPedido] = "string"
                        /\ TiposMostra(DataPedido, "string", 5000)
            /\ (TemColuna(wb, OrderDate) /\ wb.data[OrderDate] = CorpoComNA) =>
                  /\ df.dtype[OrderDate] = "string"
                  /\ df.data[OrderDate] = <<Txt("2024-01-05"), NA>>
                  /\ OrderDate \in Elementos(colunas_cat)
                  /\ TiposMostra(OrderDate, "string", 5000)

\* a DataPedido column with a date and N/A was parsed beside an OrderDate column
C7_Witness ==
    /\ carga.resultado = "leu"
    /\ TemColuna(carga.arquivo, DataPedido)
    /\ TemColuna(carga.arquivo, OrderDate)
    /\ carga.arquivo.data[DataPedido] = CorpoComNA
    /\ df.dtype[DataPedido] = "datetime64[ns]"
    /\ df.data[DataPedido] = <<Data(5), NA>>
    /\ TiposMostra(DataPedido, "datetime64[ns]", 5000)

Neg(x) ==
    CASE x.t = "fin" -> Fin(-x.v)
      [] x.t = "inf" -> Inf(-x.v)
      [] OTHER -> NaN

Calculado == Executou /\ welch.estado = "calculado"

\* the panel's result with the two labels exchanged
Trocado ==
    TesteDosGrupos(df_viz, welch.metrica, welch.grupo, welch.cat2, welch.cat1,
                   welch.min_amostra)

TrocaNega ==
    /\ Trocado.estado = "calculado"
    /\ Trocado.delta = Neg(welch.delta)
    /\ Trocado.t_stat = Neg(welch.t_stat)
    /\ Trocado.p_val = welch.p_val
    /\ Trocado.ic_a = welch.ic_b
    /\ Trocado.ic_b = welch.ic_a

\* C8 as stated: whenever the test is computed on two groups (here: of two
\* different labels) the t-statistic has the sign of mean_A - mean_B, and
\* exchanging A and B negates the difference and t and leaves p and each
\* group's mean and interval unchanged.
C8_Original ==
    (Calculado /\ welch.cat1 # welch.cat2) =>
        /\ welch.t_stat.t # "nan"
        /\ Sinal(welch.t_stat.v) = Sinal(welch.delta.v)
        /\ TrocaNega

TodosIguais(celulas) == \A i, j \in 1..Len(celulas) : celulas[i] = celulas[j]

\* C8 as amended: whenever the test is computed, t is undefined (NaN, with p)
\* exactly when both groups have zero variance and equal means; otherwise t
\* has the sign of mean_A - mean_B; exchanging A and B negates the difference
\* and t (an undefined t stays undefined) and leaves p and each group's mean
\* and interval unchanged.
C8_SinalQuandoDefinido ==
    Calculado =>
        /\ welch.t_stat.t = "nan" <=>
               /\ TodosIguais(welch.df_a)
               /\ TodosIguais(welch.df_b)
               /\ welch.delta.v = 0
        /\ welch.t_stat.t = "nan" <=> welch.p_val.t = "nan"
        /\ welch.t_stat.t # "nan" => Sinal(welch.t_stat.v) = Sinal(welch.delta.v)
        /\ TrocaNega

\* two different groups, mean of A below mean of B, a finite negative t
C8_Witness ==
    /\ Calculado
    /\ welch.cat1 # welch.cat2
    /\ welch.t_stat.t = "fin"
    /\ welch.t_stat.v < 0
    /\ welch.delta.v < 0

TesteSobreAmostra ==
    RotulosEscolhidos =>
        /\ welch.categorias = Categorias(df_viz, welch.grupo)
        /\ welch.df_a = ValoresDoGrupo(df_viz, welch.grupo, welch.metrica, welch.cat1)
        /\ welch.df_b = ValoresDoGrupo(df_viz, welch.grupo, welch.metrica, welch.cat2)
        /\ welch.estado = "calculado" =>
               /\ welch.ic_a = ic_media(welch.df_a, 50)
               /\ welch.ic_b = ic_media(welch.df_b, 50)

\* C9 as stated: the descriptive statistics, the intervals and the test are
\* all computed over df_viz.
C9_Original ==
    Executou =>
        /\ resumo.estado = "tabela" =>
               /\ resumo.entrada = Projetar(df_viz, resumo.cols)
               /\ resumo.linhas = estatisticas_basicas(Projetar(df_viz, resumo.cols), resumo.cols)
        /\ TesteSobreAmostra

\* C9 as amended: the intervals and the test are computed over df_viz; the
\* descriptive statistics are computed over the full loaded table df, also
\* when a smaller sample is in effect.
C9_ResumoSobreBase ==
    Executou =>
        /\ resumo.estado = "tabela" =>
               /\ resumo.entrada = Projetar(df, resumo.cols)
               /\ resumo.linhas = estatisticas_basicas(Projetar(df, resumo.cols), resumo.cols)
        /\ TesteSobreAmostra

\* a smaller sample is in effect, the test ran on it, the summary counts a
\* value the sample does not hold
C9_Witness ==
    /\ Calculado
    /\ resumo.estado = "tabela"
    /\ NLinhas(df_viz) < NLinhas(df)
    /\ resumo.linhas[1].count > count(to_numeric(df_viz.data[Qty]))

\* C10: whenever the intervals and the test are computed the two labels are
\* distinct and the two groups share no row.
C10_RotulosDistintos ==
    Calculado =>
        /\ welch.cat1 # welch.cat2
        /\ LinhasValidas(df_viz, welch.grupo, welch.metrica, welch.cat1)
             \cap LinhasValidas(df_viz, welch.grupo, welch.metrica, welch.cat2) = {}

=============================================================================
